---- MODULE Spec2Model ----
(***************************************************************************)
(* Model of the media downloader (src/main.py) and its storage manager      *)
(* (src/storage_manager.py).                                                *)
(*                                                                          *)
(* A job is one invocation of downloader_tool.  Every blocking step is a    *)
(* task handed to one of two ThreadPoolExecutors; a task is first queued,   *)
(* then picked up by a free worker, then completes with an outcome chosen   *)
(* by the environment (the extraction engine, the disk, the S3 backend).    *)
(* The coroutine code that runs between two awaits is one atomic step of    *)
(* the single event loop, so it is folded into the action that delivers     *)
(* the awaited result.                                                      *)
(***************************************************************************)
EXTENDS Integers, Sequences, FiniteSets, TLC

\* ------------------------------------------------------------------ bounds
NumJobs == 2
MaxApiCalls == 5
MaxNameLen == 6
MaxTickets == 12
MaxHung == 10
MaxAccepted == 2
MaxForeign == 5

Jobs == 1..NumJobs

\* ------------------------------------------------------- program constants
GeneralPoolWorkers == 10
StoragePoolWorkers == 5
LinkExpiration == 86400

\* Python None / JSON null
Null == "null"

\* Extensions the extraction engine may report in info['ext'] ("absent": the
\* key is missing from the metadata): one video-like, one other.
ReportedExts == {"mp4", "mp3", "absent"}

VARIABLES
    pc,          \* job -> position of the downloader_tool coroutine
    tempPath,    \* job -> unique_id of the job (0 before it is generated)
    ext,         \* job -> ext read from the metadata (Null before)
    fileKey,     \* job -> key returned by upload_file (Null before)
    resp,        \* job -> sequence of responses returned to the caller
    cleanup,     \* job -> state of the detached cleanup task
    probe,       \* job -> what the playlist probe saw (history)
    dl,          \* job -> how the download ended (history)
    stepErr,     \* job -> the later step that failed, if any (history)
    calls,       \* job -> number of times each blocking operation ran
    genQueue,    \* executor (main.py): submitted, not yet started tasks
    genRunning,  \* executor (main.py): tasks running on a worker
    stoQueue,    \* wasabi_storage.executor: submitted, not yet started
    stoRunning,  \* wasabi_storage.executor: running on a worker
    files,       \* paths that exist under /tmp
    bucket,      \* keys of the objects stored in the bucket
    uuids,       \* number of uuid4() values drawn so far
    api,         \* last direct call to the storage manager and its result
    tickets,     \* pool load: operations submitted so far, per family
    hung,        \* pool load: running downloads that never return
    name,        \* filename handed to the sanitizer (code points)
    clean,       \* what the sanitizer returned, and after how many runs
    media,       \* a downloaded item and what the classification made of it
    startup      \* construction of the storage manager at import time

vars == <<pc, tempPath, ext, fileKey, resp, cleanup, probe, dl, stepErr, calls,
          genQueue, genRunning, stoQueue, stoRunning, files, bucket, uuids, api,
          tickets, hung, name, clean, media, startup>>

jobVars == <<pc, tempPath, ext, fileKey, resp, cleanup, probe, dl, stepErr, calls>>
poolVars == <<genQueue, genRunning, stoQueue, stoRunning>>
extraVars == <<tickets, hung, name, clean, media, startup>>

Ops == {"probe", "download", "read", "upload", "presign", "cleanup"}

Task(j, op) == [job |-> j, op |-> op]

\* uuid.uuid4(): each draw is a value never drawn before.
Uuid4(n) == n + 1

\* ------------------------------------------------------------- responses
\* A message is the fixed text of the template (as words) plus what the
\* f-string interpolates into it.
Msg(words) == [text |-> words]

Contains(m, w) == \E i \in 1..Len(m.text) : m.text[i] = w

MsgPlaylist == Msg(<<"Playlists", "are", "not", "supported.", "Please",
                     "provide", "a", "single", "media", "URL.">>)
MsgNoMedia == Msg(<<"No", "media", "found", "at", "the", "provided", "URL.">>)
MsgFileMissing == Msg(<<"Failed", "to", "download", "the", "media", "file.">>)

PlaylistResp ==
    [success |-> FALSE, message |-> MsgPlaylist, download_url |-> Null, type |-> Null]

NoMediaResp ==
    [success |-> FALSE, message |-> MsgNoMedia, download_url |-> Null, type |-> Null]

FileMissingRespAsNoMedia ==
    [success |-> FALSE, message |-> MsgNoMedia, download_url |-> Null, type |-> Null]

FileMissingResp ==
    [success |-> FALSE, message |-> MsgFileMissing, download_url |-> Null, type |-> Null]

ErrorRespNoShape(e) ==
    [success |-> FALSE, message |-> [text |-> <<"Error", "during", "download:">>, detail |-> e]]

\* except Exception as e (main.py 267-275)
ErrorResp(e) ==
    [success |-> FALSE,
     message |-> [text |-> <<"Error", "during", "download:">>, detail |-> e],
     download_url |-> Null, type |-> Null]

\* main.py 249
MediaType(content_type) == IF content_type.major = "video" THEN "Video" ELSE "Audio"

\* main.py 251-262: the success response has the keys success and message only
SuccessResp(content_type, e, download_url, file_key) ==
    [success |-> TRUE,
     message |-> [text |-> <<"Download", "Complete!", "Type", "Title", "Size",
                             "Download", "Link", "expires", "in", "24", "hours",
                             "Reference">>,
                  media_type |-> MediaType(content_type), ext |-> e,
                  download_url |-> download_url, file_key |-> file_key]]

\* main.py 232
ContentType(e) ==
    IF e \in {"mp4", "webm"} THEN [major |-> "video", minor |-> "mp4"]
    ELSE [major |-> "audio", minor |-> e]


\* ------------------------------------------------------- values and paths
NoKey == [uuid |-> 0, ext |-> Null]
NoPath == [stem |-> 0, ext |-> Null]
NoInfo == [present |-> FALSE, ext |-> "absent"]
NoUrl == [key |-> NoKey, expires |-> 0, disposition |-> Null, content_type |-> Null]

\* f"{temp_path}.{ext}" (main.py 123); temp_path is f"/tmp/{unique_id}" (181)
TempFilePath(temp_path, e) == [stem |-> temp_path, ext |-> e]

\* info.get('ext', 'mp4') (main.py 122, 213)
InfoExt(info) == IF info.ext = "absent" THEN "mp4" ELSE info.ext

Keys(b) == {o.key : o \in b}

\* The objects in the bucket stored under key k.
Stored(k) == {o \in bucket : o.key = k}

\* ------------------------------------------------------- playlist probe
\* What ydl.extract_info(url, download=False) can produce: an exception, a
\* value that is no dict, or a dict with or without '_type' and 'entries'.
ProbeResults ==
    {[raised |-> TRUE, isDict |-> FALSE, ptype |-> "absent", entries |-> "absent"],
     [raised |-> FALSE, isDict |-> FALSE, ptype |-> "absent", entries |-> "absent"]}
    \cup [raised : {FALSE}, isDict : {TRUE},
          ptype : {"absent", "video", "playlist", "multi_video"},
          entries : {"absent", "list", "generator"}]

IsPlaylistSyncNoMultiVideo(res) ==
    IF res.raised THEN FALSE
    ELSE IF res.isDict
         THEN res.ptype = "playlist" \/ res.entries = "list"
         ELSE FALSE

IsPlaylistSyncRaiseRejects(res) ==
    IF res.raised THEN TRUE
    ELSE IF res.isDict
         THEN res.ptype \in {"playlist", "multi_video"} \/ res.entries = "list"
         ELSE FALSE

\* _is_playlist_sync (main.py 71-90)
IsPlaylistSync(res) ==
    IF res.raised THEN FALSE
    ELSE IF res.isDict
         THEN res.ptype \in {"playlist", "multi_video"} \/ res.entries = "list"
         ELSE FALSE

\* What the probe was given, recorded for the properties: the extraction
\* raised, or it described a collection, or a single item.
ProbeShape(res) ==
    IF res.raised THEN "raised"
    ELSE IF res.isDict /\ (res.ptype = "playlist" \/ res.ptype = "multi_video"
                           \/ res.entries = "list")
         THEN "collection"
         ELSE "single"

\* ------------------------------------------------------------- download
\* What ydl.extract_info(url, download=True) can do: raise, return nothing,
\* or return metadata, having written the output file or not.
DownloadOutcomes ==
    {[raised |-> TRUE, info |-> NoInfo, wrote |-> FALSE],
     [raised |-> FALSE, info |-> NoInfo, wrote |-> FALSE]}
    \cup [raised : {FALSE}, info : [present : {TRUE}, ext : ReportedExts],
          wrote : BOOLEAN]

\* 'outtmpl': f'{temp_path}.%(ext)s' (main.py 103): the engine names the file
\* after the extension it knows; a missing field is rendered NA.
WrittenFiles(out, temp_path) ==
    IF out.wrote
    THEN {TempFilePath(temp_path, IF out.info.ext = "absent" THEN "NA" ELSE out.info.ext)}
    ELSE {}

\* _download_media_sync (main.py 99-125)
DownloadMediaSync(out, temp_path) ==
    IF out.raised THEN [info |-> NoInfo, temp_file_path |-> NoPath]
    ELSE IF ~out.info.present THEN [info |-> NoInfo, temp_file_path |-> NoPath]
    ELSE [info |-> out.info, temp_file_path |-> TempFilePath(temp_path, InfoExt(out.info))]

DownloadShape(out) ==
    IF out.raised THEN "raised" ELSE IF ~out.info.present THEN "noinfo" ELSE "ok"

AfterDownloadUnchecked(info, temp_file_path, fs) == "read"

\* downloader_tool (main.py 202-225): what follows the download
AfterDownload(info, temp_file_path, fs) ==
    IF ~info.present \/ temp_file_path = NoPath THEN "nomedia"
    ELSE IF temp_file_path \notin fs THEN "missing"
    ELSE "read"

\* ----------------------------------------------------------------- read
\* _read_file_sync (main.py 134-141): open() raises when the file is absent
\* or unreadable, and the exception is re-raised.
ReadFileSync(file_path, fs, ioOk) ==
    IF file_path \in fs /\ ioOk
    THEN [raised |-> FALSE, err |-> Null, content |-> file_path]
    ELSE [raised |-> TRUE, err |-> "OSError", content |-> NoPath]

\* -------------------------------------------------------------- cleanup
CleanupFileSyncRemovesAll(file_path, fs, rmOk) ==
    IF file_path \in fs
    THEN IF rmOk THEN [files |-> {}, outcome |-> "removed"]
         ELSE [files |-> fs, outcome |-> "failed"]
    ELSE [files |-> fs, outcome |-> "nofile"]

\* _cleanup_file_sync (main.py 150-157): os.remove may raise; the exception
\* is logged and swallowed.
CleanupFileSync(file_path, fs, rmOk) ==
    IF file_path \in fs
    THEN IF rmOk THEN [files |-> fs \ {file_path}, outcome |-> "removed"]
         ELSE [files |-> fs, outcome |-> "failed"]
    ELSE [files |-> fs, outcome |-> "nofile"]

\* ------------------------------------------------------- storage manager
Filename(title, e) == [title |-> title, ext |-> e]

\* filename.split('.')[-1] if '.' in filename else 'bin' (storage_manager.py
\* 114); the filename is f"{title}.{ext}", whose last dot precedes ext.
FileExtension(filename) == filename.ext

FileKeyFromName(uuid, filename) == [uuid |-> 0, ext |-> FileExtension(filename)]

\* f"{uuid.uuid4()}.{file_extension}" (storage_manager.py 115)
FileKey(uuid, filename) == [uuid |-> uuid, ext |-> FileExtension(filename)]

PutOutcomes == {"ok", "ClientError", "Exception"}

\* _upload_file_sync (storage_manager.py 111-146).  Two uuid4() values are
\* drawn before put_object: the key and the upload_timestamp.
UploadFileSync(n, file_content, filename, content_type, put) ==
    LET file_key == FileKey(Uuid4(n), filename) IN
    IF put = "ok"
    THEN [raised |-> FALSE, err |-> Null, file_key |-> file_key,
          object |-> [key |-> file_key, body |-> file_content,
                      content_type |-> content_type]]
    ELSE [raised |-> TRUE,
          err |-> IF put = "ClientError" THEN "Failed to upload file"
                  ELSE "Unexpected upload error",
          file_key |-> NoKey,
          object |-> [key |-> NoKey, body |-> NoPath, content_type |-> content_type]]

\* s3_client.head_object: succeeds on a stored object unless the backend
\* refuses the request; on a missing object it raises ClientError, whose
\* code is "404" (a HEAD response has no body to carry a code) or
\* "NoSuchKey".
HeadObjectOutcomes(b, file_key) ==
    IF file_key \in Keys(b) THEN {"ok", "AccessDenied"} ELSE {"404", "NoSuchKey"}

\* _get_file_url_sync (storage_manager.py 159-186)
GetFileUrlSync(file_key, expiration, head) ==
    IF head = "ok"
    THEN [raised |-> FALSE, err |-> Null,
          url |-> [key |-> file_key, expires |-> expiration,
                   disposition |-> "attachment",
                   content_type |-> "application/octet-stream"]]
    ELSE IF head = "NoSuchKey"
         THEN [raised |-> TRUE, err |-> "File not found", url |-> NoUrl]
         ELSE [raised |-> TRUE, err |-> "Failed to generate URL", url |-> NoUrl]

DeleteOutcomes == {"ok", "ClientError"}

\* _delete_file_sync (storage_manager.py 198-206)
DeleteFileSync(b, file_key, del) ==
    IF del = "ok"
    THEN [bucket |-> {o \in b : o.key # file_key}, result |-> TRUE]
    ELSE [bucket |-> b, result |-> FALSE]


\* ------------------------------------------------------------------ state
NoCalls == [o \in Ops |-> 0]

NoApi == [n |-> 0, op |-> "none", key |-> NoKey, stored |-> FALSE,
          raised |-> FALSE, err |-> Null]

NoTickets == [general |-> 0, storage |-> 0]

NotSanitized == [runs |-> 0, arg |-> <<>>, value |-> <<>>]

\* The state after the module is loaded (main.py 23-27), whatever filename a
\* later upload is given.
InitState ==
    /\ pc = [j \in Jobs |-> "idle"]
    /\ tempPath = [j \in Jobs |-> 0]
    /\ ext = [j \in Jobs |-> Null]
    /\ fileKey = [j \in Jobs |-> NoKey]
    /\ resp = [j \in Jobs |-> <<>>]
    /\ cleanup = [j \in Jobs |-> "none"]
    /\ probe = [j \in Jobs |-> "none"]
    /\ dl = [j \in Jobs |-> "none"]
    /\ stepErr = [j \in Jobs |-> "none"]
    /\ calls = [j \in Jobs |-> NoCalls]
    /\ genQueue = <<>>
    /\ genRunning = {}
    /\ stoQueue = <<>>
    /\ stoRunning = {}
    /\ files = {}
    /\ bucket = {}
    /\ uuids = 0
    /\ api = NoApi
    /\ tickets = NoTickets
    /\ hung = {}
    /\ clean = NotSanitized

\* No item handed to the classification yet.
NoType == [major |-> Null, minor |-> Null]
NotClassified ==
    [title |-> Null, ext |-> Null, content_type |-> NoType, media_type |-> Null,
     stage |-> "none"]

\* The module has been imported: the storage manager is constructed and the
\* server accepts requests (main.py 24, 292).
Serving ==
    [phase |-> "serving", env |-> {"access_key", "secret_key", "bucket_name"},
     region |-> "us-east-1", remote |-> "exists", head |-> "ok",
     create |-> [constraint |-> Null, outcome |-> "none"], accepted |-> 0]

Init ==
    /\ InitState
    /\ name = <<>>
    /\ media = NotClassified
    /\ startup = Serving

\* The temp file of job j, once its extension is known.
JobFile(j) == TempFilePath(tempPath[j], ext[j])

\* ------------------------------------------------------------ the pools
GenTakeOneWorker ==
    /\ genQueue # <<>>
    /\ Cardinality(genRunning) < 1
    /\ genRunning' = genRunning \cup {Head(genQueue)}
    /\ genQueue' = Tail(genQueue)

GenTakeUnbounded ==
    /\ genQueue # <<>>
    /\ genRunning' = genRunning \cup {Head(genQueue)}
    /\ genQueue' = Tail(genQueue)

\* ThreadPoolExecutor(max_workers=10) (main.py 27): a worker takes the
\* oldest queued task when fewer than max_workers tasks are running.
GenTake ==
    /\ genQueue # <<>>
    /\ Cardinality(genRunning) < GeneralPoolWorkers
    /\ genRunning' = genRunning \cup {Head(genQueue)}
    /\ genQueue' = Tail(genQueue)

\* A worker of the general pool starts a task of a job; the run is counted.
GenStart ==
    /\ GenTake
    /\ LET t == Head(genQueue) IN
        calls' = [calls EXCEPT ![t.job][t.op] = @ + 1]
    /\ UNCHANGED <<pc, tempPath, ext, fileKey, resp, cleanup, probe, dl, stepErr,
                   stoQueue, stoRunning, files, bucket, uuids, api, extraVars>>

\* ThreadPoolExecutor(max_workers=max_workers) (storage_manager.py 27), built
\* with max_workers=5 (main.py 24)
StoTake ==
    /\ stoQueue # <<>>
    /\ Cardinality(stoRunning) < StoragePoolWorkers
    /\ stoRunning' = stoRunning \cup {Head(stoQueue)}
    /\ stoQueue' = Tail(stoQueue)

StoStartDropsTask ==
    /\ stoQueue # <<>>
    /\ stoQueue' = Tail(stoQueue)
    /\ UNCHANGED <<jobVars, genQueue, genRunning, stoRunning, files, bucket, uuids,
                   api, extraVars>>

\* A worker of the storage pool starts a task of a job; the run is counted.
StoStart ==
    /\ StoTake
    /\ LET t == Head(stoQueue) IN
        calls' = [calls EXCEPT ![t.job][t.op] = @ + 1]
    /\ UNCHANGED <<pc, tempPath, ext, fileKey, resp, cleanup, probe, dl, stepErr,
                   genQueue, genRunning, files, bucket, uuids, api, extraVars>>

\* ------------------------------------------------------ downloader_tool
StartJobFansOut(j) ==
    /\ pc[j] = "idle"
    /\ \A i \in Jobs : i < j => pc[i] # "idle"
    /\ tempPath' = [tempPath EXCEPT ![j] = Uuid4(uuids)]
    /\ uuids' = uuids + 1
    /\ genQueue' = genQueue \o <<Task(j, "probe"), Task(j, "download")>>
    /\ pc' = [pc EXCEPT ![j] = "probe"]
    /\ UNCHANGED <<ext, fileKey, resp, cleanup, probe, dl, stepErr, calls,
                   genRunning, stoQueue, stoRunning, files, bucket, api, extraVars>>

\* main.py 178-186: draw the job's id and await is_playlist(url).  Invocations
\* are interchangeable, so they are numbered in the order they arrive.
StartJob(j) ==
    /\ pc[j] = "idle"
    /\ \A i \in Jobs : i < j => pc[i] # "idle"
    /\ tempPath' = [tempPath EXCEPT ![j] = Uuid4(uuids)]
    /\ uuids' = uuids + 1
    /\ genQueue' = Append(genQueue, Task(j, "probe"))
    /\ pc' = [pc EXCEPT ![j] = "probe"]
    /\ UNCHANGED <<ext, fileKey, resp, cleanup, probe, dl, stepErr, calls,
                   genRunning, stoQueue, stoRunning, files, bucket, api, extraVars>>

\* main.py 186-200: the probe returns; reject a playlist or await the download
ProbeDone(j) ==
    /\ pc[j] = "probe"
    /\ Task(j, "probe") \in genRunning
    /\ \E res \in ProbeResults :
        /\ probe' = [probe EXCEPT ![j] = ProbeShape(res)]
        /\ IF IsPlaylistSync(res)
           THEN /\ resp' = [resp EXCEPT ![j] = Append(@, PlaylistResp)]
                /\ pc' = [pc EXCEPT ![j] = "done"]
                /\ genQueue' = genQueue
           ELSE /\ resp' = resp
                /\ pc' = [pc EXCEPT ![j] = "download"]
                /\ genQueue' = Append(genQueue, Task(j, "download"))
    /\ genRunning' = genRunning \ {Task(j, "probe")}
    /\ UNCHANGED <<tempPath, ext, fileKey, cleanup, dl, stepErr, calls,
                   stoQueue, stoRunning, files, bucket, uuids, api, extraVars>>

\* main.py 200-228: the download returns; check the result and the file, then
\* await the read
DownloadDone(j) ==
    /\ pc[j] = "download"
    /\ Task(j, "download") \in genRunning
    /\ \E out \in DownloadOutcomes :
        LET r == DownloadMediaSync(out, tempPath[j])
            fs == files \cup WrittenFiles(out, tempPath[j])
            next == AfterDownload(r.info, r.temp_file_path, fs)
        IN  /\ dl' = [dl EXCEPT ![j] = DownloadShape(out)]
            /\ files' = fs
            /\ IF next = "nomedia"
               THEN /\ resp' = [resp EXCEPT ![j] = Append(@, NoMediaResp)]
                    /\ pc' = [pc EXCEPT ![j] = "done"]
                    /\ UNCHANGED <<ext, stepErr, genQueue>>
               ELSE IF next = "missing"
               THEN /\ resp' = [resp EXCEPT ![j] = Append(@, FileMissingResp)]
                    /\ pc' = [pc EXCEPT ![j] = "done"]
                    /\ ext' = [ext EXCEPT ![j] = InfoExt(r.info)]
                    /\ stepErr' = [stepErr EXCEPT ![j] = "exists"]
                    /\ genQueue' = genQueue
               ELSE /\ resp' = resp
                    /\ pc' = [pc EXCEPT ![j] = "read"]
                    /\ ext' = [ext EXCEPT ![j] = InfoExt(r.info)]
                    /\ stepErr' = stepErr
                    /\ genQueue' = Append(genQueue, Task(j, "read"))
    /\ genRunning' = genRunning \ {Task(j, "download")}
    /\ UNCHANGED <<tempPath, fileKey, cleanup, probe, calls,
                   stoQueue, stoRunning, bucket, uuids, api, extraVars>>

ReadDoneKeepsWorker(j) ==
    /\ pc[j] = "read"
    /\ Task(j, "read") \in genRunning
    /\ \E ioOk \in BOOLEAN :
        LET r == ReadFileSync(JobFile(j), files, ioOk) IN
        IF r.raised
        THEN /\ resp' = [resp EXCEPT ![j] = Append(@, ErrorResp(r.err))]
             /\ stepErr' = [stepErr EXCEPT ![j] = "read"]
             /\ pc' = [pc EXCEPT ![j] = "done"]
             /\ UNCHANGED <<stoQueue, genRunning>>
        ELSE /\ resp' = resp
             /\ stepErr' = stepErr
             /\ pc' = [pc EXCEPT ![j] = "upload"]
             /\ stoQueue' = Append(stoQueue, Task(j, "upload"))
             /\ genRunning' = genRunning \ {Task(j, "read")}
    /\ UNCHANGED <<tempPath, ext, fileKey, cleanup, probe, dl, calls,
                   genQueue, stoRunning, files, bucket, uuids, api, extraVars>>

\* main.py 228-240: the read returns or raises; classify and await the upload
ReadDone(j) ==
    /\ pc[j] = "read"
    /\ Task(j, "read") \in genRunning
    /\ \E ioOk \in BOOLEAN :
        LET r == ReadFileSync(JobFile(j), files, ioOk) IN
        IF r.raised
        THEN /\ resp' = [resp EXCEPT ![j] = Append(@, ErrorResp(r.err))]
             /\ stepErr' = [stepErr EXCEPT ![j] = "read"]
             /\ pc' = [pc EXCEPT ![j] = "done"]
             /\ stoQueue' = stoQueue
        ELSE /\ resp' = resp
             /\ stepErr' = stepErr
             /\ pc' = [pc EXCEPT ![j] = "upload"]
             /\ stoQueue' = Append(stoQueue, Task(j, "upload"))
    /\ genRunning' = genRunning \ {Task(j, "read")}
    /\ UNCHANGED <<tempPath, ext, fileKey, cleanup, probe, dl, calls,
                   genQueue, stoRunning, files, bucket, uuids, api, extraVars>>

UploadDoneContinues(j) ==
    /\ pc[j] = "upload"
    /\ Task(j, "upload") \in stoRunning
    /\ \E put \in PutOutcomes :
        LET r == UploadFileSync(uuids, JobFile(j), Filename("title", ext[j]),
                                ContentType(ext[j]), put) IN
        IF r.raised
        THEN /\ resp' = [resp EXCEPT ![j] = Append(@, ErrorResp(r.err))]
             /\ stepErr' = [stepErr EXCEPT ![j] = "upload"]
             /\ pc' = [pc EXCEPT ![j] = "presign"]
             /\ stoQueue' = Append(stoQueue, Task(j, "presign"))
             /\ UNCHANGED <<fileKey, bucket>>
        ELSE /\ resp' = resp
             /\ stepErr' = stepErr
             /\ pc' = [pc EXCEPT ![j] = "presign"]
             /\ fileKey' = [fileKey EXCEPT ![j] = r.file_key]
             /\ bucket' = bucket \cup {r.object}
             /\ stoQueue' = Append(stoQueue, Task(j, "presign"))
    /\ uuids' = uuids + 2
    /\ stoRunning' = stoRunning \ {Task(j, "upload")}
    /\ UNCHANGED <<tempPath, ext, cleanup, probe, dl, calls,
                   genQueue, genRunning, files, api, extraVars>>

\* main.py 236-243: the upload returns the key or raises; await the presign
UploadDone(j) ==
    /\ pc[j] = "upload"
    /\ Task(j, "upload") \in stoRunning
    /\ \E put \in PutOutcomes :
        LET r == UploadFileSync(uuids, JobFile(j), Filename("title", ext[j]),
                                ContentType(ext[j]), put) IN
        IF r.raised
        THEN /\ resp' = [resp EXCEPT ![j] = Append(@, ErrorResp(r.err))]
             /\ stepErr' = [stepErr EXCEPT ![j] = "upload"]
             /\ pc' = [pc EXCEPT ![j] = "done"]
             /\ UNCHANGED <<fileKey, bucket, stoQueue>>
        ELSE /\ resp' = resp
             /\ stepErr' = stepErr
             /\ pc' = [pc EXCEPT ![j] = "presign"]
             /\ fileKey' = [fileKey EXCEPT ![j] = r.file_key]
             /\ bucket' = bucket \cup {r.object}
             /\ stoQueue' = Append(stoQueue, Task(j, "presign"))
    /\ uuids' = uuids + 2
    /\ stoRunning' = stoRunning \ {Task(j, "upload")}
    /\ UNCHANGED <<tempPath, ext, cleanup, probe, dl, calls,
                   genQueue, genRunning, files, api, extraVars>>

PresignDoneAnyKey(j) ==
    /\ pc[j] = "presign"
    /\ Task(j, "presign") \in stoRunning
    /\ \E k \in Keys(bucket), head \in HeadObjectOutcomes(bucket, fileKey[j]) :
        LET r == GetFileUrlSync(k, LinkExpiration, head) IN
        IF r.raised
        THEN /\ resp' = [resp EXCEPT ![j] = Append(@, ErrorResp(r.err))]
             /\ stepErr' = [stepErr EXCEPT ![j] = "presign"]
             /\ cleanup' = cleanup
             /\ genQueue' = genQueue
        ELSE /\ resp' = [resp EXCEPT ![j] =
                            Append(@, SuccessResp(ContentType(ext[j]), ext[j],
                                                  r.url, k))]
             /\ stepErr' = stepErr
             /\ cleanup' = [cleanup EXCEPT ![j] = "submitted"]
             /\ genQueue' = Append(genQueue, Task(j, "cleanup"))
    /\ pc' = [pc EXCEPT ![j] = "done"]
    /\ stoRunning' = stoRunning \ {Task(j, "presign")}
    /\ UNCHANGED <<tempPath, ext, fileKey, probe, dl, calls,
                   genRunning, stoQueue, files, bucket, uuids, api, extraVars>>

PresignDoneRollsBack(j) ==
    /\ pc[j] = "presign"
    /\ Task(j, "presign") \in stoRunning
    /\ \E head \in HeadObjectOutcomes(bucket, fileKey[j]) :
        LET r == GetFileUrlSync(fileKey[j], LinkExpiration, head) IN
        IF r.raised
        THEN /\ resp' = [resp EXCEPT ![j] = Append(@, ErrorResp(r.err))]
             /\ stepErr' = [stepErr EXCEPT ![j] = "presign"]
             /\ cleanup' = cleanup
             /\ genQueue' = genQueue
             /\ bucket' = bucket \ Stored(fileKey[j])
        ELSE /\ resp' = [resp EXCEPT ![j] =
                            Append(@, SuccessResp(ContentType(ext[j]), ext[j],
                                                  r.url, fileKey[j]))]
             /\ stepErr' = stepErr
             /\ cleanup' = [cleanup EXCEPT ![j] = "submitted"]
             /\ genQueue' = Append(genQueue, Task(j, "cleanup"))
             /\ bucket' = bucket
    /\ pc' = [pc EXCEPT ![j] = "done"]
    /\ stoRunning' = stoRunning \ {Task(j, "presign")}
    /\ UNCHANGED <<tempPath, ext, fileKey, probe, dl, calls,
                   genRunning, stoQueue, files, uuids, api, extraVars>>

\* main.py 243-265: the presign returns the link or raises; create the
\* cleanup task, which hands _cleanup_file_sync to the pool (160-163), and
\* return the success response without awaiting it
PresignDone(j) ==
    /\ pc[j] = "presign"
    /\ Task(j, "presign") \in stoRunning
    /\ \E head \in HeadObjectOutcomes(bucket, fileKey[j]) :
        LET r == GetFileUrlSync(fileKey[j], LinkExpiration, head) IN
        IF r.raised
        THEN /\ resp' = [resp EXCEPT ![j] = Append(@, ErrorResp(r.err))]
             /\ stepErr' = [stepErr EXCEPT ![j] = "presign"]
             /\ cleanup' = cleanup
             /\ genQueue' = genQueue
        ELSE /\ resp' = [resp EXCEPT ![j] =
                            Append(@, SuccessResp(ContentType(ext[j]), ext[j],
                                                  r.url, fileKey[j]))]
             /\ stepErr' = stepErr
             /\ cleanup' = [cleanup EXCEPT ![j] = "submitted"]
             /\ genQueue' = Append(genQueue, Task(j, "cleanup"))
    /\ pc' = [pc EXCEPT ![j] = "done"]
    /\ stoRunning' = stoRunning \ {Task(j, "presign")}
    /\ UNCHANGED <<tempPath, ext, fileKey, probe, dl, calls,
                   genRunning, stoQueue, files, bucket, uuids, api, extraVars>>

CleanupDoneSurfacesFailure(j) ==
    /\ cleanup[j] = "submitted"
    /\ Task(j, "cleanup") \in genRunning
    /\ \E rmOk \in BOOLEAN :
        LET r == CleanupFileSync(JobFile(j), files, rmOk) IN
        /\ files' = r.files
        /\ cleanup' = [cleanup EXCEPT ![j] = r.outcome]
        /\ resp' = IF r.outcome = "failed"
                   THEN [resp EXCEPT ![j] = <<ErrorResp("OSError")>>]
                   ELSE resp
    /\ genRunning' = genRunning \ {Task(j, "cleanup")}
    /\ UNCHANGED <<pc, tempPath, ext, fileKey, probe, dl, stepErr, calls,
                   genQueue, stoQueue, stoRunning, bucket, uuids, api, extraVars>>

\* cleanup_file (main.py 160-163): _cleanup_file_sync (150-157) finishes on its
\* worker and the detached task ends
CleanupDone(j) ==
    /\ cleanup[j] = "submitted"
    /\ Task(j, "cleanup") \in genRunning
    /\ \E rmOk \in BOOLEAN :
        LET r == CleanupFileSync(JobFile(j), files, rmOk) IN
        /\ files' = r.files
        /\ cleanup' = [cleanup EXCEPT ![j] = r.outcome]
    /\ genRunning' = genRunning \ {Task(j, "cleanup")}
    /\ UNCHANGED <<pc, tempPath, ext, fileKey, resp, probe, dl, stepErr, calls,
                   genQueue, stoQueue, stoRunning, bucket, uuids, api, extraVars>>

Next ==
    \/ GenStart
    \/ StoStart
    \/ \E j \in Jobs : StartJob(j)
    \/ \E j \in Jobs : ProbeDone(j)
    \/ \E j \in Jobs : DownloadDone(j)
    \/ \E j \in Jobs : ReadDone(j)
    \/ \E j \in Jobs : UploadDone(j)
    \/ \E j \in Jobs : PresignDone(j)
    \/ \E j \in Jobs : CleanupDone(j)

Spec == Init /\ [][Next]_vars


\* ------------------------------------- the storage manager, called directly
\* Keys a caller may ask about: keys handed out by an upload, and keys no
\* upload ever produced.
ApiKeys == {[uuid |-> u, ext |-> e] : u \in 1..(uuids + 1), e \in {"mp4", "mp3"}}

\* upload_file (storage_manager.py 148-157)
ApiUpload ==
    /\ api.n < MaxApiCalls
    /\ \E e \in {"mp4", "mp3"}, put \in PutOutcomes :
        LET r == UploadFileSync(uuids, TempFilePath(0, e), Filename("title", e),
                                ContentType(e), put) IN
        /\ bucket' = IF r.raised THEN bucket ELSE bucket \cup {r.object}
        /\ api' = [n |-> api.n + 1, op |-> "upload_file", key |-> r.file_key,
                   stored |-> ~r.raised, raised |-> r.raised, err |-> r.err]
    /\ uuids' = uuids + 2
    /\ UNCHANGED <<jobVars, poolVars, files, extraVars>>

\* get_file_url (storage_manager.py 188-196)
ApiGetFileUrl ==
    /\ api.n < MaxApiCalls
    /\ \E k \in ApiKeys :
        \E head \in HeadObjectOutcomes(bucket, k) :
            LET r == GetFileUrlSync(k, LinkExpiration, head) IN
            api' = [n |-> api.n + 1, op |-> "get_file_url", key |-> k,
                    stored |-> k \in Keys(bucket), raised |-> r.raised, err |-> r.err]
    /\ UNCHANGED <<jobVars, poolVars, files, bucket, uuids, extraVars>>

\* delete_file (storage_manager.py 208-211)
ApiDeleteFile ==
    /\ api.n < MaxApiCalls
    /\ \E k \in ApiKeys, del \in DeleteOutcomes :
        LET r == DeleteFileSync(bucket, k, del) IN
        /\ bucket' = r.bucket
        /\ api' = [n |-> api.n + 1, op |-> "delete_file", key |-> k,
                   stored |-> k \in Keys(bucket), raised |-> FALSE, err |-> Null]
    /\ UNCHANGED <<jobVars, poolVars, files, uuids, extraVars>>

StorageNext ==
    \/ ApiUpload
    \/ ApiGetFileUrl
    \/ ApiDeleteFile

StorageSpec == Init /\ [][StorageNext]_vars


\* ------------------------------------------- the filename sanitizer alone
\* A filename is a sequence of code points.  '_' is 95; the characters the
\* pattern [^\x00-\x7F] matches are those above 127.
Underscore == 95
MaxAscii == 127

\* Characters filenames are built from: a letter, the separator and two
\* different non-ASCII characters.
Chars == {97, Underscore, 233, 8364}

Filenames == UNION {[1..n -> Chars] : n \in 0..MaxNameLen}

IsAscii(c) == c <= MaxAscii

RECURSIVE DropNonAscii(_)
DropNonAscii(s) ==
    IF s = <<>> \/ IsAscii(Head(s)) THEN s ELSE DropNonAscii(Tail(s))

RECURSIVE DropUnderscores(_)
DropUnderscores(s) ==
    IF s = <<>> \/ Head(s) # Underscore THEN s ELSE DropUnderscores(Tail(s))

\* re.sub(r'[^\x00-\x7F]+', '_', filename) (storage_manager.py 104)
RECURSIVE ReplaceNonAscii(_)
ReplaceNonAscii(s) ==
    IF s = <<>> THEN <<>>
    ELSE IF IsAscii(Head(s)) THEN <<Head(s)>> \o ReplaceNonAscii(Tail(s))
    ELSE <<Underscore>> \o ReplaceNonAscii(DropNonAscii(Tail(s)))

\* re.sub(r'_{2,}', '_', sanitized) (storage_manager.py 106)
RECURSIVE CollapseUnderscores(_)
CollapseUnderscores(s) ==
    IF s = <<>> THEN <<>>
    ELSE IF Head(s) = Underscore
         THEN <<Underscore>> \o CollapseUnderscores(DropUnderscores(Tail(s)))
         ELSE <<Head(s)>> \o CollapseUnderscores(Tail(s))

RECURSIVE DropTrailingUnderscores(_)
DropTrailingUnderscores(s) ==
    IF s = <<>> \/ s[Len(s)] # Underscore THEN s
    ELSE DropTrailingUnderscores(SubSeq(s, 1, Len(s) - 1))

\* sanitized.strip('_') (storage_manager.py 108)
StripUnderscores(s) == DropTrailingUnderscores(DropUnderscores(s))

SanitizeStripFirst(filename) ==
    CollapseUnderscores(ReplaceNonAscii(StripUnderscores(filename)))

SanitizeNoCollapse(filename) ==
    StripUnderscores(ReplaceNonAscii(filename))

\* _sanitize_filename_for_metadata (storage_manager.py 101-109)
SanitizeFilenameForMetadata(filename) ==
    StripUnderscores(CollapseUnderscores(ReplaceNonAscii(filename)))

SanitizeInit ==
    /\ InitState
    /\ name \in Filenames
    /\ media = NotClassified
    /\ startup = Serving

\* The sanitizer is applied to the filename...
SanitizeName ==
    /\ clean.runs = 0
    /\ clean' = [runs |-> 1, arg |-> name,
                 value |-> SanitizeFilenameForMetadata(name)]
    /\ UNCHANGED <<jobVars, poolVars, files, bucket, uuids, api, tickets, hung, name, media,
                   startup>>

\* ... and then to its own result.
SanitizeAgain ==
    /\ clean.runs = 1
    /\ clean' = [runs |-> 2, arg |-> clean.value,
                 value |-> SanitizeFilenameForMetadata(clean.value)]
    /\ UNCHANGED <<jobVars, poolVars, files, bucket, uuids, api, tickets, hung, name, media,
                   startup>>

SanitizeNext ==
    \/ SanitizeName
    \/ SanitizeAgain

SanitizeSpec == SanitizeInit /\ [][SanitizeNext]_vars

\* ------------------------------------------------- the two pools under load
\* The operations of many invocations, seen from the pools: every operation
\* is handed to an executor with run_in_executor, waits in its queue, is run
\* by a worker and returns.  Which job an operation belongs to does not
\* matter here; the n-th operation of a family is numbered n.
GeneralOps == <<"probe", "download", "read", "cleanup">>
StorageOps == <<"upload", "presign">>

Families == {"general", "storage"}

ExecutorOfSingle(op) == "general"

\* is_playlist, download_media, read_file_async and cleanup_file pass the
\* module's executor (main.py 96, 131, 147, 163); upload_file and
\* get_file_url pass the storage manager's own (storage_manager.py 157, 196).
ExecutorOf(op) ==
    IF op \in {"upload", "presign"} THEN "storage" ELSE "general"

\* The next operation a family submits.
NextOp(f) ==
    LET ops == IF f = "general" THEN GeneralOps ELSE StorageOps
    IN  ops[(tickets[f] % Len(ops)) + 1]

\* loop.run_in_executor(...): the operation joins the queue of its executor.
Submit(f) ==
    /\ tickets.general + tickets.storage < MaxTickets
    /\ LET t == Task(tickets[f] + 1, NextOp(f)) IN
        IF ExecutorOf(t.op) = "general"
        THEN genQueue' = Append(genQueue, t) /\ UNCHANGED stoQueue
        ELSE stoQueue' = Append(stoQueue, t) /\ UNCHANGED genQueue
    /\ tickets' = [tickets EXCEPT ![f] = @ + 1]
    /\ UNCHANGED <<jobVars, genRunning, stoRunning, files, bucket, uuids, api,
                   hung, name, clean, media, startup>>

PoolGenTake ==
    /\ GenTake
    /\ UNCHANGED <<jobVars, stoQueue, stoRunning, files, bucket, uuids, api, extraVars>>

PoolStoTake ==
    /\ StoTake
    /\ UNCHANGED <<jobVars, genQueue, genRunning, files, bucket, uuids, api, extraVars>>

PoolGenDoneKeepsWorker(t) ==
    /\ t \in genRunning
    /\ t \notin hung
    /\ UNCHANGED <<jobVars, poolVars, files, bucket, uuids, api, extraVars>>

\* The operation returns (or raises): its worker is free again.
PoolGenDone(t) ==
    /\ t \in genRunning
    /\ t \notin hung
    /\ genRunning' = genRunning \ {t}
    /\ UNCHANGED <<jobVars, genQueue, stoQueue, stoRunning, files, bucket, uuids,
                   api, extraVars>>

PoolStoDone(t) ==
    /\ t \in stoRunning
    /\ stoRunning' = stoRunning \ {t}
    /\ UNCHANGED <<jobVars, genQueue, genRunning, stoQueue, files, bucket, uuids,
                   api, extraVars>>

PoolNext ==
    \/ \E f \in Families : Submit(f)
    \/ PoolGenTake
    \/ PoolStoTake
    \/ \E t \in genRunning : PoolGenDone(t)
    \/ \E t \in stoRunning : PoolStoDone(t)

PoolSpec == Init /\ [][PoolNext]_vars

\* ------------------------------------------- one pool under a burst of work
\* A burst of operations of one family, each of which returns in the end: a
\* worker that is free takes the oldest waiting operation, and a running
\* operation finishes.
BurstSubmit(f) ==
    /\ \A g \in Families \ {f} : tickets[g] = 0
    /\ Submit(f)

BurstNext ==
    \/ \E f \in Families : BurstSubmit(f)
    \/ PoolGenTake
    \/ PoolStoTake
    \/ \E t \in genRunning : PoolGenDone(t)
    \/ \E t \in stoRunning : PoolStoDone(t)

BurstSpec ==
    /\ Init
    /\ [][BurstNext]_vars
    /\ WF_vars(PoolGenTake)
    /\ WF_vars(PoolStoTake)
    /\ WF_vars(\E t \in genRunning : PoolGenDone(t))
    /\ WF_vars(\E t \in stoRunning : PoolStoDone(t))

\* ------------------------------------------ a job among hung extractions
\* One invocation runs its pipeline while other invocations have reached
\* their download and the extraction never returns: ydl.extract_info
\* (main.py 116) has no timeout and nothing cancels it.
Observed == 1

\* Another invocation awaits download_media (main.py 200, 131); at most n do.
SubmitDownload(n) ==
    /\ tickets.general < n
    /\ genQueue' = Append(genQueue, Task(NumJobs + tickets.general + 1, "download"))
    /\ tickets' = [tickets EXCEPT !.general = @ + 1]
    /\ UNCHANGED <<jobVars, genRunning, stoQueue, stoRunning, files, bucket,
                   uuids, api, hung, name, clean, media, startup>>

SubmitExtraction == SubmitDownload(MaxHung)

\* A worker takes that download, and it hangs: the worker is never released.
ExtractionHangs ==
    /\ genQueue # <<>>
    /\ Head(genQueue).job \notin Jobs
    /\ GenTake
    /\ hung' = hung \cup {Head(genQueue)}
    /\ UNCHANGED <<jobVars, stoQueue, stoRunning, files, bucket, uuids, api,
                   tickets, name, clean, media, startup>>

\* A worker takes the observed job's operation.
ObservedGenStart ==
    /\ genQueue # <<>>
    /\ Head(genQueue).job \in Jobs
    /\ GenStart

\* The awaited operation of the observed job returns.
ObservedStep ==
    \E j \in Jobs :
        \/ ProbeDone(j)
        \/ DownloadDone(j)
        \/ ReadDone(j)
        \/ UploadDone(j)
        \/ PresignDone(j)

HungNext ==
    \/ StartJob(Observed)
    \/ SubmitExtraction
    \/ ExtractionHangs
    \/ ObservedGenStart
    \/ StoStart
    \/ ObservedStep
    \/ \E j \in Jobs : CleanupDone(j)

HungSpec ==
    /\ Init
    /\ [][HungNext]_vars
    /\ WF_vars(ExtractionHangs)
    /\ WF_vars(ObservedGenStart)
    /\ WF_vars(StoStart)
    /\ WF_vars(ObservedStep)

\* ------------------------------------------------ the classification alone
\* Container extensions the extraction engine reports for a download made
\* with 'format': 'best[height<=720]/best' (main.py 102), which picks the best
\* stream whatever its container: video containers, and audio-only ones.
VideoExts == {"mp4", "webm", "mkv", "mov"}
AudioExts == {"mp3", "m4a", "opus"}

Titles == {"clip", "song", "talk", "live", "Unknown"}

\* What info carries for one downloaded item: 'title' and 'ext' ("absent":
\* the key is missing).
MediaItems == [title : Titles, ext : VideoExts \cup AudioExts \cup {"absent"}]

ClassifyInit ==
    /\ InitState
    /\ name = <<>>
    /\ startup = Serving
    /\ \E i \in MediaItems :
        media = [title |-> i.title, ext |-> i.ext, content_type |-> NoType,
                 media_type |-> Null, stage |-> "downloaded"]

\* main.py 213, 232: ext = info.get('ext', 'mp4'), then the content type
Classify ==
    /\ media.stage = "downloaded"
    /\ media' = [media EXCEPT !.ext = InfoExt(media),
                              !.content_type = ContentType(InfoExt(media)),
                              !.stage = "classified"]
    /\ UNCHANGED <<jobVars, poolVars, files, bucket, uuids, api, tickets, hung,
                   name, clean, startup>>

\* main.py 249: the media type shown to the user
ReportType ==
    /\ media.stage = "classified"
    /\ media' = [media EXCEPT !.media_type = MediaType(media.content_type),
                              !.stage = "reported"]
    /\ UNCHANGED <<jobVars, poolVars, files, bucket, uuids, api, tickets, hung,
                   name, clean, startup>>

ClassifyNext ==
    \/ Classify
    \/ ReportType

ClassifySpec == ClassifyInit /\ [][ClassifyNext]_vars

\* --------------------------------------- construction of the storage manager
\* main.py 24 constructs the storage manager while the module is imported,
\* before the server is started; an exception there ends the process.
Credentials == {"access_key", "secret_key", "bucket_name"}

\* Values of WASABI_REGION ("absent": the variable is not set).
RegionValues == {"us-east-1", "eu-central-1", "absent"}

\* os.getenv('WASABI_REGION', 'us-east-1') (storage_manager.py 23)
Region(v) == IF v = "absent" THEN "us-east-1" ELSE v

\* s3_client.head_bucket: succeeds on a bucket that exists and is accessible;
\* otherwise raises ClientError with code "404" (no such bucket) or "403",
\* NoCredentialsError, or a connection error, which is no ClientError.
HeadBucketOutcomes(remote) ==
    (IF remote = "exists" THEN {"ok"} ELSE {"404"})
        \cup {"403", "NoCredentialsError", "EndpointConnectionError"}

CreateBucketOutcomes == {"ok", "ClientError"}

NoCreate == [constraint |-> Null, outcome |-> "none"]

EnsureBucketExistsLenient(region, head, created) ==
    IF head = "404"
    THEN [raised |-> FALSE,
          create |-> [constraint |-> IF region # "us-east-1" THEN region ELSE "none",
                      outcome |-> created]]
    ELSE [raised |-> FALSE, create |-> NoCreate]

\* _ensure_bucket_exists (storage_manager.py 73-99)
EnsureBucketExists(region, head, created) ==
    IF head = "ok" THEN [raised |-> FALSE, create |-> NoCreate]
    ELSE IF head = "404"
    THEN [raised |-> created # "ok",
          create |-> [constraint |-> IF region # "us-east-1" THEN region ELSE "none",
                      outcome |-> created]]
    ELSE [raised |-> TRUE, create |-> NoCreate]

StartupInit ==
    /\ InitState
    /\ name = <<>>
    /\ media = NotClassified
    /\ \E e \in SUBSET Credentials, r \in RegionValues, b \in {"exists", "absent"} :
        startup = [phase |-> "import", env |-> e, region |-> r, remote |-> b,
                   head |-> "none", create |-> NoCreate, accepted |-> 0]

\* AsyncWasabiStorageManager.__init__ (storage_manager.py 19-71)
Construct ==
    /\ startup.phase = "import"
    /\ IF startup.env # Credentials
       THEN startup' = [startup EXCEPT !.phase = "aborted"]
       ELSE \E head \in HeadBucketOutcomes(startup.remote), created \in CreateBucketOutcomes :
            LET r == EnsureBucketExists(Region(startup.region), head, created) IN
            startup' = [startup EXCEPT
                            !.phase = IF r.raised THEN "aborted" ELSE "constructed",
                            !.head = head,
                            !.create = r.create,
                            !.remote = IF r.create.outcome = "ok" THEN "exists" ELSE @]
    /\ UNCHANGED <<jobVars, poolVars, files, bucket, uuids, api, tickets, hung,
                   name, clean, media>>

\* mcp.run_async (main.py 292) is reached only when the import went through.
StartServer ==
    /\ startup.phase = "constructed"
    /\ startup' = [startup EXCEPT !.phase = "serving"]
    /\ UNCHANGED <<jobVars, poolVars, files, bucket, uuids, api, tickets, hung,
                   name, clean, media>>

\* The server hands a request to downloader_tool.
AcceptRequest ==
    /\ startup.phase = "serving"
    /\ startup.accepted < MaxAccepted
    /\ startup' = [startup EXCEPT !.accepted = @ + 1]
    /\ UNCHANGED <<jobVars, poolVars, files, bucket, uuids, api, tickets, hung,
                   name, clean, media>>

StartupNext ==
    \/ Construct
    \/ StartServer
    \/ AcceptRequest

StartupSpec == StartupInit /\ [][StartupNext]_vars

\* --------------------------------- a job among extractions that return
\* One invocation runs its pipeline while the downloads of other invocations
\* pass through the general pool ahead of it or next to it; every operation
\* returns or raises in the end and the workers keep taking queued work.
ExtractionStarts ==
    /\ genQueue # <<>>
    /\ Head(genQueue).job \notin Jobs
    /\ PoolGenTake

ExtractionReturns ==
    \E t \in genRunning :
        /\ t.job \notin Jobs
        /\ PoolGenDone(t)

TerminationNext ==
    \/ StartJob(Observed)
    \/ SubmitDownload(MaxForeign)
    \/ ExtractionStarts
    \/ ExtractionReturns
    \/ ObservedGenStart
    \/ StoStart
    \/ ObservedStep
    \/ \E j \in Jobs : CleanupDone(j)

TerminationSpec ==
    /\ Init
    /\ [][TerminationNext]_vars
    /\ WF_vars(ExtractionStarts)
    /\ WF_vars(ExtractionReturns)
    /\ WF_vars(ObservedGenStart)
    /\ WF_vars(StoStart)
    /\ WF_vars(ObservedStep)

\* ============================================================ properties
Responded(j) == Len(resp[j]) > 0
Response(j) == resp[j][1]

HasKey(r, k) == k \in DOMAIN r

\* The uniform failure shape: success=false, a message, download_url=null,
\* type=null.
UniformFailure(r) ==
    /\ DOMAIN r = {"success", "message", "download_url", "type"}
    /\ r.success = FALSE
    /\ Len(r.message.text) > 0
    /\ r.download_url = Null
    /\ r.type = Null

InGeneralPool(j, op) ==
    \/ Task(j, op) \in genRunning
    \/ \E i \in 1..Len(genQueue) : genQueue[i] = Task(j, op)

\* The success response the code builds for job j.
JobSuccessResp(j) ==
    SuccessResp(ContentType(ext[j]), ext[j],
                GetFileUrlSync(fileKey[j], LinkExpiration, "ok").url, fileKey[j])

\* C1: a job whose probe described a collection gets the playlist rejection
\* (success=false, "not supported"), never runs a download or an upload, and
\* no file of that job exists on disk.
C1_PlaylistRejected ==
    \A j \in Jobs :
        probe[j] = "collection" =>
            /\ resp[j] = <<PlaylistResp>>
            /\ Response(j).success = FALSE
            /\ Contains(Response(j).message, "not")
            /\ Contains(Response(j).message, "supported.")
            /\ calls[j]["download"] = 0
            /\ calls[j]["upload"] = 0
            /\ ~InGeneralPool(j, "download")
            /\ \A f \in files : f.stem # tempPath[j]

\* A job was rejected as a playlist while another job did download a file.
C1_Witness ==
    \E i, j \in Jobs :
        /\ probe[j] = "collection" /\ pc[j] = "done"
        /\ dl[i] = "ok" /\ JobFile(i) \in files

\* C2: a success response has success=true, a non-null download_url field and
\* a type field that is "audio" or "video" and agrees with the classified
\* content type.
C2_SuccessShape ==
    \A j \in Jobs :
        (Responded(j) /\ Response(j).success) =>
            /\ HasKey(Response(j), "download_url")
            /\ Response(j).download_url # Null
            /\ HasKey(Response(j), "type")
            /\ Response(j).type \in {"audio", "video"}
            /\ Response(j).type = ContentType(ext[j]).major

\* C3: once a job has returned and no cleanup of it is pending, its temp file
\* is gone (unless the removal itself failed).
C3_TempFileReclaimed ==
    \A j \in Jobs :
        (pc[j] = "done" /\ cleanup[j] \notin {"submitted", "failed"}) =>
            JobFile(j) \notin files

\* C4: when the extraction raised during the download, the response is a
\* failure whose message contains "Error" and differs from the no-media
\* message.
C4_DownloadErrorDistinct ==
    \A j \in Jobs :
        (dl[j] = "raised" /\ Responded(j)) =>
            /\ Response(j).success = FALSE
            /\ Contains(Response(j).message, "Error")
            /\ Response(j).message # MsgNoMedia

\* A later step of job j failed: the download (raised or returned nothing),
\* the existence check, the read, the upload or the presign.
StepFailed(j) == dl[j] \in {"raised", "noinfo"} \/ stepErr[j] # "none"

\* C5 as stated: after a failure of any step, the probe included, the job
\* returns the uniform failure response.
C5_AnyStepFailureFails ==
    \A j \in Jobs :
        (pc[j] = "done" /\ (probe[j] = "raised" \/ StepFailed(j))) =>
            /\ Len(resp[j]) = 1
            /\ UniformFailure(Response(j))

\* C5 amended: every finished job has returned exactly one response, and
\* after a failure of the download, the existence check, the read, the upload
\* or the presign that response has the uniform failure shape.
C5_StepFailureUniform ==
    \A j \in Jobs :
        /\ pc[j] = "done" => Len(resp[j]) = 1
        /\ StepFailed(j) => (pc[j] = "done" /\ UniformFailure(Response(j)))

\* Two jobs failed at different steps, one of them with a raised exception.
C5_Witness ==
    \E i, j \in Jobs :
        /\ stepErr[i] \in {"read", "upload", "presign"}
        /\ dl[j] = "raised"
        /\ Responded(i) /\ Responded(j)

\* C6: the temp file is read or uploaded only after a successful download;
\* it stays on disk while the job reads, uploads and presigns; and a cleanup
\* exists only once the job is published or has failed.
C6_TempFileOrder ==
    \A j \in Jobs :
        /\ (calls[j]["read"] > 0 \/ calls[j]["upload"] > 0 \/ InGeneralPool(j, "read"))
               => dl[j] = "ok"
        /\ pc[j] \in {"read", "upload", "presign"} => JobFile(j) \in files
        /\ (cleanup[j] # "none" \/ calls[j]["cleanup"] > 0 \/ InGeneralPool(j, "cleanup"))
               => /\ pc[j] = "done"
                  /\ \/ (Response(j).success /\ fileKey[j] \in Keys(bucket))
                     \/ StepFailed(j)

\* A job's file was removed after the job was published.
C6_Witness ==
    \E j \in Jobs :
        /\ cleanup[j] = "removed"
        /\ calls[j]["read"] = 1 /\ calls[j]["upload"] = 1
        /\ fileKey[j] \in Keys(bucket)

\* C7: no two jobs share a temp path, no two uploads produced the same key,
\* and every successful upload added an object of its own to the bucket.
C7_UniqueIds ==
    /\ \A i, j \in Jobs :
        (i # j /\ tempPath[i] # 0 /\ tempPath[j] # 0) => tempPath[i] # tempPath[j]
    /\ \A i, j \in Jobs :
        (i # j /\ fileKey[i] # NoKey /\ fileKey[j] # NoKey) => fileKey[i] # fileKey[j]
    /\ Cardinality(bucket) = Cardinality({j \in Jobs : fileKey[j] # NoKey})

\* Two jobs uploaded files of the same extension.
C7_Witness ==
    \E i, j \in Jobs :
        /\ i # j
        /\ fileKey[i] # NoKey /\ fileKey[j] # NoKey
        /\ ext[i] = ext[j]

\* C8: get_file_url for a key that is not stored (never uploaded, or deleted)
\* fails with "File not found".
C8_MissingKeyNotFound ==
    (api.op = "get_file_url" /\ ~api.stored) =>
        (api.raised /\ api.err = "File not found")

\* C9: once the cleanup task exists, the caller already holds the success
\* response, and it is that same response whether the cleanup is still
\* pending, removed the file, found none or failed; the cleanup runs at most
\* once.
C9_FireAndForget ==
    \A j \in Jobs :
        /\ cleanup[j] # "none" => resp[j] = <<JobSuccessResp(j)>>
        /\ calls[j]["cleanup"] <= 1
        /\ cleanup[j] \in {"removed", "nofile", "failed"} =>
               (calls[j]["cleanup"] = 1 /\ ~InGeneralPool(j, "cleanup"))

\* One job holds its response while its cleanup has not started; another
\* holds its response although its cleanup failed.
C9_Witness ==
    \E i, j \in Jobs :
        /\ cleanup[i] = "submitted" /\ calls[i]["cleanup"] = 0 /\ Responded(i)
        /\ cleanup[j] = "failed" /\ Responded(j)

\* C10: a job whose probe raised goes on to the download; it is not rejected
\* as a playlist, and any response it gets comes from a later step.
C10_ProbeFailureProceeds ==
    \A j \in Jobs :
        probe[j] = "raised" =>
            /\ pc[j] # "probe"
            /\ calls[j]["download"] = 1 \/ InGeneralPool(j, "download")
            /\ Responded(j) => (Response(j) # PlaylistResp /\ dl[j] # "none")

\* A job whose probe raised was downloaded, published and answered with
\* success.
C10_Witness ==
    \E j \in Jobs :
        /\ probe[j] = "raised"
        /\ Responded(j) /\ Response(j).success


InStoragePool(j, op) ==
    \/ Task(j, op) \in stoRunning
    \/ \E i \in 1..Len(stoQueue) : stoQueue[i] = Task(j, op)

\* Job j ran none of the operations ops and has none of them in a pool.
NeverRan(j, ops) ==
    \A o \in ops :
        /\ calls[j][o] = 0
        /\ ~InGeneralPool(j, o)
        /\ ~InStoragePool(j, o)

\* C11: after a playlist rejection, a no-media or download failure, a missing
\* file, a read failure or an upload failure, the job is finished and none of
\* the later steps (read, upload, presign) ran or is waiting to run.
C11_ShortCircuit ==
    \A j \in Jobs :
        /\ probe[j] = "collection" =>
               (pc[j] = "done" /\ NeverRan(j, {"download", "read", "upload", "presign"}))
        /\ dl[j] \in {"raised", "noinfo"} =>
               (pc[j] = "done" /\ NeverRan(j, {"read", "upload", "presign"}))
        /\ stepErr[j] = "exists" =>
               (pc[j] = "done" /\ NeverRan(j, {"read", "upload", "presign"}))
        /\ stepErr[j] = "read" =>
               (pc[j] = "done" /\ NeverRan(j, {"upload", "presign"}))
        /\ stepErr[j] = "upload" =>
               (pc[j] = "done" /\ NeverRan(j, {"presign"}))

\* One job failed at the upload and another at the existence check.
C11_Witness ==
    \E i, j \in Jobs :
        /\ stepErr[i] = "upload" /\ calls[i]["upload"] = 1
        /\ stepErr[j] = "exists" /\ calls[j]["download"] = 1


HasNonAscii(s) == \E i \in 1..Len(s) : ~IsAscii(s[i])

\* C12: sanitizing the sanitizer's own result returns it unchanged.
C12_SanitizeIdempotent ==
    clean.runs = 2 => clean.value = clean.arg

\* The first run changed a filename that held non-ASCII characters and
\* underscores, and the second run was applied to a non-empty result.
C12_Witness ==
    /\ clean.runs = 2
    /\ HasNonAscii(name)
    /\ \E i \in 1..Len(name) : name[i] = Underscore
    /\ clean.arg # name
    /\ Len(clean.arg) >= 3

\* C13: the sanitized filename holds ASCII characters only, neither starts
\* nor ends with '_', and holds no two consecutive '_'.
C13_SanitizedShape ==
    clean.runs >= 1 =>
        LET r == clean.value IN
        /\ \A i \in 1..Len(r) : IsAscii(r[i])
        /\ r # <<>> => (r[1] # Underscore /\ r[Len(r)] # Underscore)
        /\ \A i \in 1..(Len(r) - 1) : ~(r[i] = Underscore /\ r[i + 1] = Underscore)

\* A filename with a leading and a trailing non-ASCII character and an
\* embedded run of two was sanitized to letter, separator, letter.
C13_Witness ==
    /\ clean.runs = 1
    /\ Len(name) = 6
    /\ ~IsAscii(name[1]) /\ ~IsAscii(name[6])
    /\ IsAscii(name[2]) /\ ~IsAscii(name[3]) /\ ~IsAscii(name[4]) /\ IsAscii(name[5])
    /\ name[3] # name[4]
    /\ clean.value = <<97, Underscore, 97>>


InQueue(q, t) == \E i \in 1..Len(q) : q[i] = t

\* The operations an executor holds, waiting or running.
HeldBy(q, running) == {q[i] : i \in 1..Len(q)} \cup running

\* C14: an operation is only ever held by its own pool (probe, download, read
\* and cleanup by the general pool; upload and presign by the storage pool),
\* and a waiting operation of one pool can be started whenever that pool has
\* a free worker, however busy or backlogged the other pool is.
C14_PoolsIndependent ==
    /\ \A t \in HeldBy(genQueue, genRunning) : t.op \in {"probe", "download", "read", "cleanup"}
    /\ \A t \in HeldBy(stoQueue, stoRunning) : t.op \in {"upload", "presign"}
    /\ (genQueue # <<>> /\ Cardinality(genRunning) < GeneralPoolWorkers) => ENABLED PoolGenTake
    /\ (stoQueue # <<>> /\ Cardinality(stoRunning) < StoragePoolWorkers) => ENABLED PoolStoTake

\* Every general worker is busy and general operations are waiting, while an
\* upload is running in the storage pool.
C14_Witness ==
    /\ Cardinality(genRunning) = GeneralPoolWorkers
    /\ genQueue # <<>>
    /\ Task(1, "upload") \in stoRunning

\* C19: at most 10 operations run at once in the general pool and at most 5
\* in the storage pool.
C19_PoolCapacity ==
    /\ Cardinality(genRunning) <= GeneralPoolWorkers
    /\ Cardinality(stoRunning) <= StoragePoolWorkers

\* The general pool runs exactly 10 operations while two more wait.
C19_Witness ==
    /\ Cardinality(genRunning) = GeneralPoolWorkers
    /\ Len(genQueue) >= 2


\* What the operation of a step raises, as the caller's except clause sees it.
RaisedTexts(step) ==
    IF step = "read" THEN {"OSError"}
    ELSE IF step = "upload" THEN {"Failed to upload file", "Unexpected upload error"}
    ELSE IF step = "presign" THEN {"File not found", "Failed to generate URL"}
    ELSE {}

\* C15: when a read, an upload or a presign raised in its pool, the job got
\* one failure response carrying the exception's text, the operation holds no
\* worker any more, and every busy worker of either pool runs an operation
\* that is still awaited (or a cleanup), so no worker is lost to a failure.
C15_RaiseDeliveredWorkerFreed ==
    /\ \A j \in Jobs :
        stepErr[j] \in {"read", "upload", "presign"} =>
            /\ pc[j] = "done"
            /\ Len(resp[j]) = 1
            /\ Response(j).success = FALSE
            /\ Response(j).message.detail \in RaisedTexts(stepErr[j])
            /\ Task(j, stepErr[j]) \notin genRunning \cup stoRunning
    /\ \A t \in genRunning \cup stoRunning :
        t.op = "cleanup" \/ pc[t.job] = t.op

\* One job's upload ran and raised, and the storage pool is running the
\* upload of another job.
C15_Witness ==
    \E i, j \in Jobs :
        /\ stepErr[i] = "upload"
        /\ calls[i]["upload"] = 1
        /\ Task(j, "upload") \in stoRunning


\* The operation submitted before op in downloader_tool (none before probe).
Before(op) ==
    IF op = "download" THEN "probe"
    ELSE IF op = "read" THEN "download"
    ELSE IF op = "upload" THEN "read"
    ELSE IF op = "presign" THEN "upload"
    ELSE IF op = "cleanup" THEN "presign"
    ELSE "none"

\* Every operation waiting or running in either pool.
Held == HeldBy(genQueue, genRunning) \cup HeldBy(stoQueue, stoRunning)

\* C17: a job never has two operations waiting or running at once; no
\* operation of a job runs twice, and none has run unless the one before it
\* in the order probe, download, read, upload, presign, cleanup has; and an
\* operation is submitted only in a step after which the one before it has
\* run once and no other operation of the job is left in a pool.
C17_StrictlySequential ==
    /\ [](/\ Len(genQueue) + Len(stoQueue) + Cardinality(genRunning)
                + Cardinality(stoRunning) = Cardinality(Held)
          /\ \A t, u \in Held : t.job = u.job => t = u
          /\ \A j \in Jobs :
                /\ calls[j]["probe"] <= 1
                /\ \A op \in Ops \ {"probe"} : calls[j][op] <= calls[j][Before(op)])
    /\ [][\A t \in Held' \ Held :
            /\ calls[t.job][t.op] = 0
            /\ t.op # "probe" => calls[t.job][Before(t.op)] = 1
            /\ \A u \in Held : u.job = t.job => u \notin Held']_vars

\* One job has run all six operations, the last (cleanup) still on its
\* worker, while another job is in the middle of its download.
C17_Witness ==
    \E i, j \in Jobs :
        /\ \A op \in Ops : calls[i][op] = 1
        /\ Task(i, "cleanup") \in genRunning
        /\ Task(j, "download") \in genRunning


\* C18: no job's cleanup runs twice or is scheduled again once it has ended,
\* and whenever files disappear from the working directory it is exactly the
\* temp file of one job whose cleanup ends in that step; every other file
\* stays.
C18_CleanupOnceOwnFile ==
    /\ [](\A j \in Jobs : calls[j]["cleanup"] <= 1)
    /\ [][/\ \A j \in Jobs :
                cleanup'[j] = "submitted" => cleanup[j] \in {"none", "submitted"}
          /\ files \ files' # {} =>
                \E j \in Jobs :
                    /\ cleanup[j] = "submitted"
                    /\ cleanup'[j] = "removed"
                    /\ files \ files' = {JobFile(j)}]_vars

\* The cleanup of one job has removed that job's file while the temp file of
\* another job, downloaded and not yet cleaned up, is still on disk.
C18_Witness ==
    \E i, j \in Jobs :
        /\ i # j
        /\ cleanup[i] = "removed"
        /\ calls[i]["cleanup"] = 1
        /\ JobFile(i) \notin files
        /\ dl[j] = "ok"
        /\ cleanup[j] = "none"
        /\ JobFile(j) \in files


\* The n-th operation a family submits.
TicketTask(f, n) ==
    LET ops == IF f = "general" THEN GeneralOps ELSE StorageOps
    IN  Task(n, ops[((n - 1) % Len(ops)) + 1])

Waiting(t) == InQueue(genQueue, t) \/ InQueue(stoQueue, t)
Running(t) == t \in genRunning \/ t \in stoRunning

Saturated(f) ==
    IF f = "general" THEN Cardinality(genRunning) = GeneralPoolWorkers
    ELSE Cardinality(stoRunning) = StoragePoolWorkers

QueueOf(f) == IF f = "general" THEN genQueue ELSE stoQueue

\* C16: an operation waiting in a queue is never dropped (in the next state
\* it still waits or it runs), and whenever operations wait while every
\* worker of their pool is busy, the pool's queue is eventually empty: with
\* the first part, each of them has been run by then.
C16_QueuedThenExecuted ==
    /\ [][\A f \in Families : \A n \in 1..tickets[f] :
            Waiting(TicketTask(f, n)) =>
                (Waiting(TicketTask(f, n))' \/ Running(TicketTask(f, n))')]_vars
    /\ \A f \in Families :
            (Saturated(f) /\ QueueOf(f) # <<>>) ~> (QueueOf(f) = <<>>)

\* The sixth operation of the storage family has got a worker, all five
\* storage workers are busy and the seventh operation waits.
C16_Witness ==
    /\ tickets.storage >= 7
    /\ TicketTask("storage", 6) \in stoRunning
    /\ Cardinality(stoRunning) = StoragePoolWorkers
    /\ Waiting(TicketTask("storage", 7))


\* C20: hung extractions hold workers of the general pool only; a new
\* invocation is accepted whatever is hung; and a job that has started gets
\* its response unless every worker of the general pool is hung.
C20_HungBlocksOwnSlot ==
    /\ [](hung \subseteq genRunning /\ Cardinality(stoRunning \cap hung) = 0)
    /\ [](pc[Observed] = "idle" => ENABLED StartJob(Observed))
    /\ (pc[Observed] \notin {"idle", "done"}) ~>
            (pc[Observed] = "done" \/ Cardinality(hung) >= GeneralPoolWorkers)

\* Nine of the ten workers are hung, and the job, whose download has
\* returned, is reading its file on the tenth.
C20_Witness ==
    /\ Cardinality(hung) = GeneralPoolWorkers - 1
    /\ calls[Observed]["download"] = 1
    /\ Task(Observed, "read") \in genRunning


\* Where downloader_tool runs a blocking operation: on a pool, through
\* run_in_executor, or inline in the coroutine, on the event loop, as it does
\* for os.path.exists(temp_file_path) (main.py 218).
RunsOn(op) == IF op = "exists" THEN "loop" ELSE ExecutorOf(op)

\* The blocking operations job j has performed: those a worker has started,
\* and the existence check once the download has returned metadata.
BlockingWork(j) ==
    {op \in Ops : calls[j][op] > 0}
        \cup (IF dl[j] = "ok" THEN {"exists"} ELSE {})

\* C21: every blocking operation a job has performed ran on one of the two
\* worker pools, none on the event loop.
C21_BlockingWorkOnPools ==
    \A j \in Jobs : \A op \in BlockingWork(j) : RunsOn(op) \in Families


\* C22: a job whose download returned metadata but left no file at the path
\* built from the reported extension is finished with the failure response
\* "Failed to download the media file.", which is not the message a raising
\* extraction produces ("No media found at the provided URL."), and it ran
\* no read, upload or presign.
C22_MissingFileDistinct ==
    [](\A j \in Jobs :
        /\ stepErr[j] = "exists" =>
            /\ dl[j] = "ok"
            /\ JobFile(j) \notin files
            /\ pc[j] = "done"
            /\ resp[j] = <<FileMissingResp>>
            /\ UniformFailure(Response(j))
            /\ Response(j).message # MsgNoMedia
            /\ calls[j]["read"] = 0 /\ calls[j]["upload"] = 0 /\ calls[j]["presign"] = 0
            /\ Task(j, "read") \notin Held
        /\ (dl[j] = "raised" /\ Responded(j)) => Response(j).message = MsgNoMedia)

\* One job's extraction raised and another job's extraction reported success
\* without leaving the file; both have their response.
C22_Witness ==
    \E i, j \in Jobs :
        /\ dl[i] = "raised" /\ Responded(i)
        /\ stepErr[j] = "exists" /\ Responded(j)
        /\ Response(i).message # Response(j).message


\* C23: a classified item with a video container extension has a video
\* content type, an item with any other extension e has the content type
\* audio/e, and the reported media type is "Video" exactly when the content
\* type is a video type.
C23_ClassificationTable ==
    /\ media.stage \in {"classified", "reported"} =>
        /\ media.ext \in VideoExts => media.content_type.major = "video"
        /\ media.ext \notin VideoExts =>
               media.content_type = [major |-> "audio", minor |-> media.ext]
    /\ media.stage = "reported" =>
        (media.media_type = "Video" <=> media.content_type.major = "video")


\* C24: the bucket is created only after the existence check answered "404",
\* with a location constraint exactly when the region is not us-east-1; the
\* manager is constructed only with all credentials present and a bucket
\* that was found or has just been created, and otherwise construction is
\* aborted; requests are accepted only by a constructed manager.
C24_StartupAllOrNothing ==
    LET made == startup.create.outcome # "none"
        ready == /\ startup.env = Credentials
                 /\ \/ startup.head = "ok"
                    \/ startup.head = "404" /\ startup.create.outcome = "ok"
    IN  /\ made => /\ startup.head = "404"
                   /\ (startup.create.constraint = "none")
                          <=> (Region(startup.region) = "us-east-1")
                   /\ startup.create.constraint # "none"
                          => startup.create.constraint = startup.region
        /\ startup.head = "ok" => ~made
        /\ startup.phase \in {"constructed", "serving"} => (ready /\ startup.remote = "exists")
        /\ startup.phase = "aborted" => ~ready
        /\ startup.accepted > 0 => (startup.phase = "serving" /\ ready)

\* The bucket was absent, was created with the location constraint of a
\* non-default region, and the server has accepted a request.
C24_Witness ==
    /\ startup.head = "404"
    /\ startup.create = [constraint |-> "eu-central-1", outcome |-> "ok"]
    /\ startup.phase = "serving"
    /\ startup.accepted > 0


\* C25: no job downloads, uploads or presigns more than once; a presign is
\* submitted only by a job whose own upload returned a key, for an object
\* that is in the bucket; no file is stored twice; and a success response
\* names the key and a link to the key its own job's upload returned, under
\* which exactly one object is stored, whose content is the job's own file.
C25_OneObjectPerSuccess ==
    [](/\ \A j \in Jobs :
            /\ calls[j]["download"] <= 1
            /\ calls[j]["upload"] <= 1
            /\ calls[j]["presign"] <= 1
            /\ (pc[j] = "presign" \/ calls[j]["presign"] > 0) =>
                    /\ calls[j]["upload"] = 1
                    /\ fileKey[j] # NoKey
                    /\ Cardinality(Stored(fileKey[j])) = 1
            /\ (Responded(j) /\ Response(j).success) =>
                    /\ calls[j]["presign"] = 1
                    /\ Response(j).message.file_key = fileKey[j]
                    /\ Response(j).message.download_url.key = fileKey[j]
                    /\ \A o \in Stored(fileKey[j]) : o.body = JobFile(j)
       /\ \A o, q \in bucket : (o.body = q.body \/ o.key = q.key) => o = q
       /\ Cardinality(bucket) = Cardinality({j \in Jobs : calls[j]["upload"] = 1
                                                          /\ fileKey[j] # NoKey}))

\* Every job has its success response, each for its own object.
C25_Witness ==
    /\ \A j \in Jobs : Responded(j) /\ Response(j).success
    /\ Cardinality(bucket) = NumJobs
    /\ Cardinality({Response(j).message.file_key : j \in Jobs}) = NumJobs


\* C26: no step removes an object from the bucket; the object a job's upload
\* stored is in the bucket in every later state, also after the presign has
\* failed and the job has answered success=false.
C26_StoredObjectStays ==
    /\ [][bucket \subseteq bucket']_vars
    /\ [](\A j \in Jobs :
            /\ fileKey[j] # NoKey => fileKey[j] \in Keys(bucket)
            /\ stepErr[j] = "presign" =>
                    /\ Response(j).success = FALSE
                    /\ fileKey[j] \in Keys(bucket))

\* A job's presign failed: the job answered success=false, its object is in
\* the bucket, and no cleanup of its temp file was scheduled.
C26_Witness ==
    \E j \in Jobs :
        /\ stepErr[j] = "presign"
        /\ Responded(j) /\ Response(j).success = FALSE
        /\ fileKey[j] \in Keys(bucket)
        /\ cleanup[j] = "none"


\* C27: an invocation that has started eventually holds a response; a job
\* holds a response exactly when it is finished, never more than one, and a
\* response once given is never changed; the response is the success
\* response of the job or a failure of the uniform shape.
C27_EventuallyOneResponse ==
    /\ (pc[Observed] # "idle") ~> (pc[Observed] = "done" /\ Len(resp[Observed]) = 1)
    /\ [](\A j \in Jobs :
            /\ Len(resp[j]) <= 1
            /\ Responded(j) <=> pc[j] = "done"
            /\ Responded(j) =>
                \/ Response(j) = JobSuccessResp(j)
                \/ UniformFailure(Response(j)))
    /\ [][\A j \in Jobs : Responded(j) => resp'[j] = resp[j]]_vars

\* The job holds its success response, its five awaited operations having
\* run once each, while downloads of other invocations run next to it.
C27_Witness ==
    /\ Responded(Observed) /\ Response(Observed).success
    /\ \A op \in Ops \ {"cleanup"} : calls[Observed][op] = 1
    /\ Cardinality({t \in genRunning : t.job \notin Jobs}) >= 2
    /\ tickets.general = MaxForeign

====
